---------------------------- MODULE Spec2Model ----------------------------
(***************************************************************************)
(* Model of src/mental_health_app.py: the Streamlit script that reads an   *)
(* uploaded spreadsheet, validates its columns, derives the Score_ columns,*)
(* sums them into Risk_Score, classifies Risk_Level and shows / exports    *)
(* the report.                                                             *)
(*                                                                         *)
(* Numbers are fixed-point with two decimals (the integer n stands for     *)
(* n / 100), which is exact for the weights of the script (1.5, 2.0, 3.0,  *)
(* 1.0, 5.0, 8.0, 0.7, 0.5) on inputs given to one decimal.  Text is a TLA+ *)
(* string; lower() and startswith() are computed character by character.   *)
(***************************************************************************)
EXTENDS Integers, Sequences, FiniteSets, TLC

VARIABLES pc, uploaded_file, df, df_report, ui

vars == <<pc, uploaded_file, df, df_report, ui>>

---------------------------------------------------------------------------
(* Cells of a DataFrame: a number, a missing value (NaN), a text, or the   *)
(* marker of an operation that raised.                                     *)

Num(n) == [t |-> "num", v |-> n, s |-> ""]
Str(x) == [t |-> "str", v |-> 0, s |-> x]
NaN == [t |-> "nan", v |-> 0, s |-> ""]
Raised == [t |-> "err", v |-> 0, s |-> ""]

Whole(n) == n * 100
Tenths(n) == n * 10

---------------------------------------------------------------------------
(* Text operations.                                                        *)

LowerChar(c) ==
    CASE c = "Y" -> "y" [] c = "E" -> "e" [] c = "S" -> "s"
      [] c = "N" -> "n" [] c = "O" -> "o" [] c = "A" -> "a"
      [] OTHER -> c

RECURSIVE Lower(_)
Lower(x) ==
    IF Len(x) = 0 THEN ""
    ELSE LowerChar(SubSeq(x, 1, 1)) \o Lower(SubSeq(x, 2, Len(x)))

StartsWith(x, prefix) ==
    /\ Len(x) >= Len(prefix)
    /\ SubSeq(x, 1, Len(prefix)) = prefix

Digit(d) ==
    CASE d = 0 -> "0" [] d = 1 -> "1" [] d = 2 -> "2" [] d = 3 -> "3"
      [] d = 4 -> "4" [] d = 5 -> "5" [] d = 6 -> "6" [] d = 7 -> "7"
      [] d = 8 -> "8" [] OTHER -> "9"

RECURSIVE Digits(_)
Digits(n) == IF n < 10 THEN Digit(n) ELSE Digits(n \div 10) \o Digit(n % 10)

\* str() of a number held in a float column: sign, integer part, ".", decimals.
NumToStr(n) ==
    LET a == IF n < 0 THEN 0 - n ELSE n
        frac == a % 100
    IN  (IF n < 0 THEN "-" ELSE "") \o Digits(a \div 100) \o "." \o
        (IF frac % 10 = 0 THEN Digit(frac \div 10)
         ELSE Digit(frac \div 10) \o Digit(frac % 10))

\* Series.astype(str): every cell becomes a text, a missing one "nan".
AsTypeStr(c) ==
    CASE c.t = "str" -> c.s
      [] c.t = "nan" -> "nan"
      [] OTHER -> NumToStr(c.v)

---------------------------------------------------------------------------
(* Arithmetic on cells, as pandas applies it element by element: NaN       *)
(* propagates, a text operand raises TypeError.                            *)

Sub(a, b) ==
    IF a.t \in {"str", "err"} \/ b.t \in {"str", "err"} THEN Raised
    ELSE IF a.t = "nan" \/ b.t = "nan" THEN NaN
    ELSE Num(a.v - b.v)

\* c * w for a float weight w (fixed-point product).
Mul(c, w) ==
    IF c.t \in {"str", "err"} THEN Raised
    ELSE IF c.t = "nan" THEN NaN
    ELSE Num((c.v * w) \div 100)

ClipLower(c, lo) ==
    IF c.t \in {"str", "err"} THEN Raised
    ELSE IF c.t = "nan" THEN NaN
    ELSE Num(IF c.v < lo THEN lo ELSE c.v)

ClipUpper(c, hi) ==
    IF c.t \in {"str", "err"} THEN Raised
    ELSE IF c.t = "nan" THEN NaN
    ELSE Num(IF c.v > hi THEN hi ELSE c.v)

Clip(c, lo, hi) == ClipUpper(ClipLower(c, lo), hi)

---------------------------------------------------------------------------
(* The column lists of the script.                                         *)

required_columns ==
    {"Student number", "Hours_Sleep", "Social_Support_Score", "Academic_Pressure",
     "Symptoms_Frequency", "CGPA", "Year_of_Study", "Interested_in_Course",
     "Family_Pressure", "Career_Pressure", "Experienced_Trauma", "Someone_to_Talk_To",
     "Sleep_Quality_Rating", "Screen_Time_Hours", "Sought_Professional_Help",
     "Overwhelmed_by_Studies", "Anxious_in_Social_Situations",
     "Physical_Exercise_Frequency", "Close_Friends_Count", "Motivated_about_Prospects",
     "Daily_Energy_Levels", "Knows_Healthy_Coping", "Skip_Meals_Irregularly",
     "Alcohol_Drinks_Weekly", "Recreational_Drugs_Use", "Difficulty_Controlling_Anger",
     "Academic_Satisfaction"}

binary_cols_risk ==
    <<"Interested_in_Course", "Family_Pressure", "Career_Pressure", "Experienced_Trauma",
      "Overwhelmed_by_Studies", "Anxious_in_Social_Situations", "Motivated_about_Prospects",
      "Knows_Healthy_Coping", "Skip_Meals_Irregularly", "Recreational_Drugs_Use",
      "Sought_Professional_Help">>

binary_reverse_cols == <<"Someone_to_Talk_To">>

\* The Score_ columns of step 2, in the order the script assigns them.
weighted_cols ==
    <<"Score_Sleep_Hours", "Score_Sleep_Quality", "Score_Symptoms", "Score_Support_Score",
      "Score_Friends", "Score_Energy", "Score_Pressure_Academic_Scale",
      "Score_Pressure_Family_Binary", "Score_Pressure_Career_Binary", "Score_CGPA",
      "Score_Acad_Dissatisfaction", "Score_Overwhelmed", "Score_Trauma", "Score_Drugs",
      "Score_Alcohol", "Score_Anger", "Score_Screen_Time", "Score_Exercise", "Score_Diet",
      "Score_Social_Anxiety", "Score_Coping", "Score_Lack_Support",
      "Score_Lack_Motivation">>

Range(q) == {q[i] : i \in 1..Len(q)}

---------------------------------------------------------------------------
(* DataFrames: a set of column names and a sequence of rows, each row a    *)
(* function from the column names to cells.                                *)

NoFrame == [cols |-> {}, rows |-> <<>>]

\* df[name] = <one cell per row>; an existing column is overwritten.
Assign(d, name, cells) ==
    [cols |-> d.cols \cup {name},
     rows |-> [i \in 1..Len(d.rows) |->
                 [c \in d.cols \cup {name} |->
                     IF c = name THEN cells[i] ELSE d.rows[i][c]]]]

\* df.drop(columns=names)
Drop(d, names) ==
    [cols |-> d.cols \ names,
     rows |-> [i \in 1..Len(d.rows) |-> [c \in d.cols \ names |-> d.rows[i][c]]]]

\* df[names]
Select(d, names) ==
    [cols |-> names,
     rows |-> [i \in 1..Len(d.rows) |-> [c \in names |-> d.rows[i][c]]]]

---------------------------------------------------------------------------
(* Step 0: the schema check.                                               *)

\* Mutant of AllRequiredPresent: any() written for all().
AnyRequiredPresent(d) == \E col \in required_columns : col \in d.cols

AllRequiredPresent(d) == \A col \in required_columns : col \in d.cols

Missing(d) == required_columns \ d.cols

---------------------------------------------------------------------------
(* Step 1: the binary mappings.                                            *)

\* Series.map(mapping_risk): a key of the dict gives its value, else NaN.
mapping_risk(x) ==
    CASE x = "yes" -> Num(Whole(1)) [] x = "no" -> Num(Whole(0)) [] OTHER -> NaN

mapping_reverse_risk(x) ==
    CASE x = "yes" -> Num(Whole(0)) [] x = "no" -> Num(Whole(1)) [] OTHER -> NaN

FillNa(c, n) == IF c.t = "nan" THEN Num(Whole(n)) ELSE c

\* Mutant of RiskIndicator: the reverse columns' fillna(1) used for the risk columns.
RiskIndicatorFillOne(c) == FillNa(mapping_risk(Lower(AsTypeStr(c))), 1)

RiskIndicator(c) == FillNa(mapping_risk(Lower(AsTypeStr(c))), 0)

ReverseIndicator(c) == FillNa(mapping_reverse_risk(Lower(AsTypeStr(c))), 1)

binary_fields == Range(binary_cols_risk) \cup Range(binary_reverse_cols)

\* The source column of a step-1 Score_ column.
SourceOf(name) == CHOOSE col \in binary_fields : "Score_" \o col = name

\* The cell of a step-1 Score_ column in row r.
Indicator(name, r) ==
    IF SourceOf(name) \in Range(binary_reverse_cols)
    THEN ReverseIndicator(r[SourceOf(name)])
    ELSE RiskIndicator(r[SourceOf(name)])

\* The two for-loops of lines 53-58: df['Score_<col>'] for every binary column.
MapBinary(d) ==
    LET names == {"Score_" \o col : col \in binary_fields}
    IN  [cols |-> d.cols \cup names,
         rows |-> [i \in 1..Len(d.rows) |->
                     [c \in d.cols \cup names |->
                         IF c \in names THEN Indicator(c, d.rows[i]) ELSE d.rows[i][c]]]]

---------------------------------------------------------------------------
(* Step 2: the weighted score of one row, per Score_ column.               *)

WeightedScore(name, r) ==
    CASE name = "Score_Sleep_Hours" ->
            Mul(Clip(Sub(Num(Whole(8)), r["Hours_Sleep"]), Whole(0), Whole(4)), 150)
      [] name = "Score_Sleep_Quality" ->
            Mul(Clip(Sub(Num(Whole(5)), r["Sleep_Quality_Rating"]), Whole(0), Whole(4)), 200)
      [] name = "Score_Symptoms" -> Mul(r["Symptoms_Frequency"], 300)
      [] name = "Score_Support_Score" ->
            Mul(Clip(Sub(Num(Whole(5)), r["Social_Support_Score"]), Whole(0), Whole(4)), 150)
      [] name = "Score_Friends" ->
            Mul(Clip(Sub(Num(Whole(5)), r["Close_Friends_Count"]), Whole(0), Whole(5)), 100)
      [] name = "Score_Energy" ->
            Mul(Clip(Sub(Num(Whole(5)), r["Daily_Energy_Levels"]), Whole(0), Whole(4)), 150)
      [] name = "Score_Pressure_Academic_Scale" -> Mul(r["Academic_Pressure"], 150)
      [] name = "Score_Pressure_Family_Binary" -> Mul(r["Score_Family_Pressure"], 200)
      [] name = "Score_Pressure_Career_Binary" -> Mul(r["Score_Career_Pressure"], 150)
      [] name = "Score_CGPA" ->
            Mul(Clip(Sub(Num(Whole(4)), r["CGPA"]), Whole(0), Whole(4)), 150)
      [] name = "Score_Acad_Dissatisfaction" ->
            Mul(ClipLower(Sub(Num(Whole(5)), r["Academic_Satisfaction"]), Whole(0)), 100)
      [] name = "Score_Overwhelmed" -> Mul(r["Score_Overwhelmed_by_Studies"], 200)
      [] name = "Score_Trauma" -> Mul(r["Score_Experienced_Trauma"], 500)
      [] name = "Score_Drugs" -> Mul(r["Score_Recreational_Drugs_Use"], 800)
      [] name = "Score_Alcohol" -> Mul(ClipUpper(r["Alcohol_Drinks_Weekly"], Whole(15)), 70)
      [] name = "Score_Anger" -> Mul(r["Difficulty_Controlling_Anger"], 150)
      [] name = "Score_Screen_Time" ->
            Mul(ClipLower(Sub(r["Screen_Time_Hours"], Num(Whole(7))), Whole(0)), 50)
      [] name = "Score_Exercise" ->
            Mul(ClipLower(Sub(Num(Whole(5)), r["Physical_Exercise_Frequency"]), Whole(0)), 100)
      [] name = "Score_Diet" -> Mul(r["Score_Skip_Meals_Irregularly"], 150)
      [] name = "Score_Social_Anxiety" -> Mul(r["Score_Anxious_in_Social_Situations"], 150)
      [] name = "Score_Coping" -> Mul(r["Score_Knows_Healthy_Coping"], 200)
      [] name = "Score_Lack_Support" -> Mul(r["Score_Someone_to_Talk_To"], 150)
      [] OTHER -> Mul(r["Score_Motivated_about_Prospects"], 150)

\* The column-wide operation raises when it raises on any row.
WeightedRaises(d, name) ==
    \E i \in 1..Len(d.rows) : WeightedScore(name, d.rows[i]) = Raised

\* The first assignment of lines 63-92 that raises (0: none does).
FirstRaising(d) ==
    IF \E k \in 1..Len(weighted_cols) : WeightedRaises(d, weighted_cols[k])
    THEN CHOOSE k \in 1..Len(weighted_cols) :
            /\ WeightedRaises(d, weighted_cols[k])
            /\ \A j \in 1..k - 1 : ~WeightedRaises(d, weighted_cols[j])
    ELSE 0

\* Lines 63-92: the frame when the block ends, and whether it ended by an
\* exception (the columns assigned before the failing line stay assigned).
\* No formula reads a column the block itself assigns.
Weighted(d) ==
    LET k == FirstRaising(d)
        done == IF k = 0 THEN Range(weighted_cols) ELSE {weighted_cols[j] : j \in 1..k - 1}
    IN  [df |-> [cols |-> d.cols \cup done,
                 rows |-> [i \in 1..Len(d.rows) |->
                             [c \in d.cols \cup done |->
                                 IF c \in done THEN WeightedScore(c, d.rows[i])
                                 ELSE d.rows[i][c]]]],
         raised |-> k # 0]

---------------------------------------------------------------------------
(* Step 3: Risk_Score.                                                     *)

score_cols(d) == {col \in d.cols : StartsWith(col, "Score_")}

\* A column of dtype object: some cell of it holds a text.
IsObjectCol(d, col) == \E i \in 1..Len(d.rows) : d.rows[i][col].t = "str"

RECURSIVE SumCells(_, _)
SumCells(r, names) ==
    IF names = {} THEN 0
    ELSE LET c == CHOOSE x \in names : TRUE
         IN  (IF r[c].t = "num" THEN r[c].v ELSE 0) + SumCells(r, names \ {c})

\* DataFrame.sum(axis=1) over the numeric columns `names`: NaN is skipped.
RowSums(d, names) == [i \in 1..Len(d.rows) |-> Num(SumCells(d.rows[i], names))]

---------------------------------------------------------------------------
(* Step 4: Risk_Level.                                                     *)

\* Mutant of get_risk_level: the thresholds compared with > instead of >=.
get_risk_level_exclusive(score) ==
    IF score > Whole(50) THEN "Critical Risk"
    ELSE IF score > Whole(30) THEN "High Risk"
    ELSE IF score > Whole(15) THEN "Moderate Risk"
    ELSE "Low Risk"

get_risk_level(score) ==
    IF score >= Whole(50) THEN "Critical Risk"
    ELSE IF score >= Whole(30) THEN "High Risk"
    ELSE IF score >= Whole(15) THEN "Moderate Risk"
    ELSE "Low Risk"

RiskLevels(d) ==
    [i \in 1..Len(d.rows) |-> Str(get_risk_level(d.rows[i]["Risk_Score"].v))]

---------------------------------------------------------------------------
(* The report frame and its display.                                       *)

\* Mutant of Report: the Score_ columns left in the report.
ReportWithScores(d) == d

Report(d) == Drop(d, {col \in d.cols : StartsWith(col, "Score_")})

display_cols ==
    {"Student number", "Risk_Score", "Risk_Level", "CGPA", "Experienced_Trauma",
     "Recreational_Drugs_Use", "Screen_Time_Hours"}

Perms(n) == {p \in [1..n -> 1..n] : \A i, j \in 1..n : i # j => p[i] # p[j]}

\* sort_values(by='Risk_Score', ascending=False): the orders a sort may
\* produce (the order of equal scores is the sort's own).
SortedDesc(d) ==
    {[cols |-> d.cols, rows |-> [i \in 1..Len(d.rows) |-> d.rows[p[i]]]] :
        p \in {q \in Perms(Len(d.rows)) :
                 \A i \in 1..Len(d.rows) - 1 :
                    d.rows[q[i]]["Risk_Score"].v >= d.rows[q[i + 1]]["Risk_Score"].v}}


---------------------------------------------------------------------------
(* The uploaded spreadsheets the model explores.                           *)

MaxRows == 2
MaxMissing == 2
MaxExtra == 1

numeric_fields == required_columns \ (binary_fields \cup {"Student number"})

\* A student with no risk factor at all: every subscore is 0.
Healthy ==
    [c \in required_columns |->
        CASE c = "Someone_to_Talk_To" -> Str("Yes")
          [] c \in Range(binary_cols_risk) -> Str("No")
          [] c = "Hours_Sleep" -> Num(Whole(8))
          [] c = "CGPA" -> Num(Whole(4))
          [] c = "Screen_Time_Hours" -> Num(Whole(7))
          [] c \in {"Symptoms_Frequency", "Academic_Pressure", "Alcohol_Drinks_Weekly",
                    "Difficulty_Controlling_Anger"} -> Num(Whole(0))
          [] c \in {"Student number", "Year_of_Study"} -> Num(Whole(1))
          [] OTHER -> Num(Whole(5))]

\* Records whose Risk_Score is exactly 15.0, 30.0 and 50.0; with
\* Screen_Time_Hours = 7.1 instead of 7.2 each scores 0.05 less.
At15 ==
    [Healthy EXCEPT !["Symptoms_Frequency"] = Num(Whole(4)),
                    !["Academic_Pressure"] = Num(Whole(1)),
                    !["Alcohol_Drinks_Weekly"] = Num(Whole(2)),
                    !["Screen_Time_Hours"] = Num(Tenths(72))]

At30 ==
    [At15 EXCEPT !["Symptoms_Frequency"] = Num(Whole(5)),
                 !["Recreational_Drugs_Use"] = Str("Yes"),
                 !["Academic_Pressure"] = Num(Whole(3))]

At50 ==
    [At30 EXCEPT !["Symptoms_Frequency"] = Num(Whole(10)),
                 !["Physical_Exercise_Frequency"] = Num(Whole(0))]

Profiles == {Healthy, At15, At30, At50}

BinaryValues ==
    {Str("Yes"), Str("yes"), Str("YES "), Str("No"), Str("no"), Str(" no"), Str(""),
     Str("maybe"), NaN, Num(Whole(1))}

NumericValues ==
    {Num(Whole(0 - 1)), Num(Whole(0)), Num(Whole(2)), Num(Whole(7)), Num(Tenths(25)),
     Num(Whole(20)), NaN, Str("abc")}

ValuesOf(c) ==
    IF c \in binary_fields THEN BinaryValues
    ELSE IF c \in numeric_fields THEN NumericValues
    ELSE {Num(Whole(2)), Str("S-17")}

\* The records one cell away from r.
OneCellFrom(r) ==
    UNION {{[r EXCEPT ![c] = v] : v \in ValuesOf(c)} : c \in required_columns}

\* The records one yes/no answer (or the student number) away from r.
OneAnswerFrom(r) ==
    {[r EXCEPT ![c] = v] : c \in binary_fields, v \in {Str("yes"), Str("no")}}
        \cup {[r EXCEPT !["Student number"] = Num(Whole(2))]}

RECURSIVE Chains(_)
\* Row sequences of length n: a profile, then each row one answer away
\* from the row before it.
Chains(n) ==
    IF n = 1 THEN {<<r>> : r \in Profiles}
    ELSE {Append(q, r) : q \in Chains(n - 1), r \in UNION {OneAnswerFrom(x) : x \in Profiles}}

RowChains(n) ==
    {q \in Chains(n) : \A i \in 1..n - 1 : q[i + 1] \in OneAnswerFrom(q[i])}

RECURSIVE SubsetsUpTo(_, _)
\* The subsets of S with at most n elements.
SubsetsUpTo(S, n) ==
    IF n = 0 THEN {{}}
    ELSE {{}} \cup {x \cup {e} : x \in SubsetsUpTo(S, n - 1), e \in S}

Frame(cols, rows) == [cols |-> cols, rows |-> rows]

\* One student, any single cell of a profile changed.
SingleRowTables ==
    {Frame(required_columns, <<r>>) : r \in UNION {OneCellFrom(x) \cup {x} : x \in Profiles}}

\* Six students on and just under the three thresholds.
ThresholdRows ==
    <<At50, [At50 EXCEPT !["Screen_Time_Hours"] = Num(Tenths(71))],
      At30, [At30 EXCEPT !["Screen_Time_Hours"] = Num(Tenths(71))],
      At15, [At15 EXCEPT !["Screen_Time_Hours"] = Num(Tenths(71))]>>

MultiRowTables ==
    {Frame(required_columns, q) : q \in UNION {RowChains(n) : n \in 2..MaxRows}}
        \cup {Frame(required_columns, <<>>), Frame(required_columns, ThresholdRows)}

\* Tables lacking 1..MaxMissing required columns, with or without an extra one.
IncompleteTables ==
    {Frame(cs \cup e, <<[c \in cs \cup e |-> IF c \in cs THEN Healthy[c] ELSE Str("n/a")]>>) :
        cs \in {required_columns \ m : m \in SubsetsUpTo(required_columns, MaxMissing) \ {{}}},
        e \in {{}, {"Notes"}}}

ExtraNames ==
    {"Notes", "Score_Extra", "Score_", "Score_Trauma", "Score_Family_Pressure",
     "score_lower", "Risk_Score", "Risk_Level"}

ExtraValues == {Num(Whole(10)), Num(Whole(0 - 5)), NaN, Str("text")}

\* Complete tables with 1..MaxExtra columns that are not required.
ExtraTables ==
    UNION {{Frame(required_columns \cup e,
                  <<[c \in required_columns \cup e |-> IF c \in e THEN f[c] ELSE r[c]]>>) :
              f \in [e -> ExtraValues], r \in Profiles} :
           e \in SubsetsUpTo(ExtraNames, MaxExtra) \ {{}}}

Tables == SingleRowTables \cup MultiRowTables \cup IncompleteTables \cup ExtraTables

\* What the file uploader holds: nothing, a file that is no spreadsheet,
\* or a spreadsheet.
Uploads ==
    {[present |-> FALSE, readable |-> FALSE, table |-> NoFrame],
     [present |-> TRUE, readable |-> FALSE, table |-> NoFrame]}
        \cup {[present |-> TRUE, readable |-> TRUE, table |-> t] : t \in Tables}

---------------------------------------------------------------------------
(* The run of the script.                                                  *)

NoOutput ==
    [schema_error |-> FALSE, missing |-> {}, processing_error |-> FALSE, cause |-> "",
     success |-> FALSE, table_shown |-> FALSE, table |-> NoFrame,
     download |-> FALSE, excel_data |-> NoFrame]

Init ==
    /\ pc = "start"
    /\ uploaded_file \in Uploads
    /\ df = NoFrame
    /\ df_report = NoFrame
    /\ ui = NoOutput

\* Mutant of Except: the exception swallowed without a message.
ExceptSilently(cause) ==
    /\ ui' = ui
    /\ pc' = "done"

\* The except clause: st.error with the cause; nothing else of the run follows.
Except(cause) ==
    /\ ui' = [ui EXCEPT !.processing_error = TRUE, !.cause = cause]
    /\ pc' = "done"

\* if uploaded_file:
Start ==
    /\ pc = "start"
    /\ pc' = IF uploaded_file.present THEN "read" ELSE "done"
    /\ UNCHANGED <<uploaded_file, df, df_report, ui>>

\* df = pd.read_excel(uploaded_file)
ReadExcel ==
    /\ pc = "read"
    /\ IF uploaded_file.readable
       THEN /\ df' = uploaded_file.table
            /\ pc' = "validate"
            /\ UNCHANGED ui
       ELSE /\ Except("read_excel")
            /\ UNCHANGED df
    /\ UNCHANGED <<uploaded_file, df_report>>

\* if not all(col in df.columns ...): st.error(... missing) / else: ...
ValidateColumns ==
    /\ pc = "validate"
    /\ IF ~AllRequiredPresent(df)
       THEN /\ ui' = [ui EXCEPT !.schema_error = TRUE, !.missing = Missing(df)]
            /\ pc' = "done"
       ELSE /\ pc' = "map"
            /\ UNCHANGED ui
    /\ UNCHANGED <<uploaded_file, df, df_report>>

\* the two for-loops of step 1
MapBinaryCols ==
    /\ pc = "map"
    /\ df' = MapBinary(df)
    /\ pc' = "weighted"
    /\ UNCHANGED <<uploaded_file, df_report, ui>>

\* step 2, lines 63-92
WeightedScores ==
    /\ pc = "weighted"
    /\ LET res == Weighted(df)
       IN  /\ df' = res.df
           /\ IF res.raised
              THEN Except("TypeError")
              ELSE pc' = "sum" /\ UNCHANGED ui
    /\ UNCHANGED <<uploaded_file, df_report>>

\* df['Risk_Score'] = df[score_cols].sum(axis=1).  With a text column among
\* score_cols the sum raises TypeError (pandas 2) or leaves the column out
\* (pandas 1, numeric_only=None): the script pins no version.
SumRiskScore ==
    /\ pc = "sum"
    /\ LET object == {col \in score_cols(df) : IsObjectCol(df, col)}
       IN  \/ /\ df' = Assign(df, "Risk_Score", RowSums(df, score_cols(df) \ object))
              /\ pc' = "classify"
              /\ UNCHANGED ui
           \/ /\ object # {}
              /\ Except("TypeError")
              /\ UNCHANGED df
    /\ UNCHANGED <<uploaded_file, df_report>>

\* df['Risk_Level'] = df['Risk_Score'].apply(get_risk_level)
ClassifyRiskLevel ==
    /\ pc = "classify"
    /\ df' = Assign(df, "Risk_Level", RiskLevels(df))
    /\ pc' = "report"
    /\ UNCHANGED <<uploaded_file, df_report, ui>>

\* df_report = df.drop(columns=[... startswith('Score_')])
BuildReport ==
    /\ pc = "report"
    /\ df_report' = Report(df)
    /\ pc' = "display"
    /\ UNCHANGED <<uploaded_file, df, ui>>

\* st.success, st.dataframe(df_report[[...]].sort_values(...))
Display ==
    /\ pc = "display"
    /\ \E shown \in SortedDesc(Select(df_report, display_cols)) :
          ui' = [ui EXCEPT !.success = TRUE, !.table_shown = TRUE, !.table = shown]
    /\ pc' = "export"
    /\ UNCHANGED <<uploaded_file, df, df_report>>

\* excel_data = convert_df_to_excel(df_report); st.download_button(...)
OfferDownload ==
    /\ pc = "export"
    /\ ui' = [ui EXCEPT !.download = TRUE, !.excel_data = df_report]
    /\ pc' = "done"
    /\ UNCHANGED <<uploaded_file, df, df_report>>

Next ==
    \/ Start
    \/ ReadExcel
    \/ ValidateColumns
    \/ MapBinaryCols
    \/ WeightedScores
    \/ SumRiskScore
    \/ ClassifyRiskLevel
    \/ BuildReport
    \/ Display
    \/ OfferDownload

Spec == Init /\ [][Next]_vars


---------------------------------------------------------------------------
(* Vocabulary of the properties.                                           *)

\* The uploaded table.
Input == uploaded_file.table

\* The run has got past the given step.
Mapped == pc \in {"weighted", "sum", "classify", "report", "display", "export"}
              \/ (pc = "done" /\ df.cols # Input.cols)
Scored == "Risk_Score" \in df.cols /\ pc \in {"classify", "report", "display", "export", "done"}
              /\ ~ui.processing_error
Classified == Scored /\ pc # "classify"
Reported == pc = "done" /\ ui.download

ScoreOfRow(i) == df.rows[i]["Risk_Score"].v
LevelOfRow(i) == df.rows[i]["Risk_Level"].s

\* C1: for every scored record Risk_Score is the sum of the weighted
\* subscores of the factor table (the 23 Score_ columns of step 2) and of
\* nothing else.
C1_RiskScoreIsFactorTableSum ==
    Scored =>
        \A i \in 1..Len(df.rows) :
            ScoreOfRow(i) = SumCells(df.rows[i], Range(weighted_cols))

\* C2: two records of one run that differ in Sought_Professional_Help only
\* have the same Risk_Score and the same Risk_Level.
C2_SoughtHelpHasNoWeight ==
    Classified =>
        \A i, j \in 1..Len(df.rows) :
            (\A c \in Input.cols \ {"Sought_Professional_Help"} :
                Input.rows[i][c] = Input.rows[j][c])
            => /\ ScoreOfRow(i) = ScoreOfRow(j)
               /\ LevelOfRow(i) = LevelOfRow(j)

\* C3: Risk_Level is decided by Risk_Score alone: Critical from 50.0, High
\* from 30.0 to below 50.0, Moderate from 15.0 to below 30.0, Low below 15.0.
C3_RiskLevelByThreshold ==
    Classified =>
        \A i \in 1..Len(df.rows) :
            /\ ScoreOfRow(i) >= 5000 <=> LevelOfRow(i) = "Critical Risk"
            /\ (ScoreOfRow(i) >= 3000 /\ ScoreOfRow(i) < 5000) <=> LevelOfRow(i) = "High Risk"
            /\ (ScoreOfRow(i) >= 1500 /\ ScoreOfRow(i) < 3000) <=> LevelOfRow(i) = "Moderate Risk"
            /\ ScoreOfRow(i) < 1500 <=> LevelOfRow(i) = "Low Risk"

\* A classified table holding a record on each threshold and one 0.05 under it.
C3_Witness ==
    /\ Classified
    /\ \E a, b, c, d, e, f \in 1..Len(df.rows) :
          /\ ScoreOfRow(a) = 5000 /\ LevelOfRow(a) = "Critical Risk"
          /\ ScoreOfRow(b) = 4995 /\ LevelOfRow(b) = "High Risk"
          /\ ScoreOfRow(c) = 3000 /\ LevelOfRow(c) = "High Risk"
          /\ ScoreOfRow(d) = 2995 /\ LevelOfRow(d) = "Moderate Risk"
          /\ ScoreOfRow(e) = 1500 /\ LevelOfRow(e) = "Moderate Risk"
          /\ ScoreOfRow(f) = 1495 /\ LevelOfRow(f) = "Low Risk"


\* C4: a table lacking a required column ends in the schema error naming
\* exactly the absent required columns, with no Score_ column, Risk_Score,
\* Risk_Level, report or download ever produced; a table holding every
\* required column, extra columns or not, passes on to scoring.
C4_SchemaGate ==
    uploaded_file.readable =>
        LET absent == {c \in required_columns : c \notin Input.cols}
        IN  /\ absent # {} =>
                /\ df \in {NoFrame, Input}
                /\ df_report = NoFrame
                /\ ~ui.success /\ ~ui.table_shown /\ ~ui.download /\ ~ui.processing_error
                /\ pc \in {"start", "read", "validate", "done"}
                /\ pc = "done" => ui.schema_error /\ ui.missing = absent
            /\ absent = {} =>
                /\ ~ui.schema_error
                /\ pc = "done" => {"Score_" \o c : c \in binary_fields} \subseteq df.cols

\* A run ended by the schema error for two absent columns, the table having
\* an extra column as well.
C4_Witness ==
    /\ pc = "done"
    /\ ui.schema_error
    /\ Cardinality(ui.missing) = 2
    /\ "Notes" \in Input.cols

RECURSIVE Strip(_)
\* str.strip() for blanks: what "trim" asks of the normalizer.
Strip(x) ==
    IF Len(x) = 0 THEN x
    ELSE IF SubSeq(x, 1, 1) = " " THEN Strip(SubSeq(x, 2, Len(x)))
    ELSE IF SubSeq(x, Len(x), Len(x)) = " " THEN Strip(SubSeq(x, 1, Len(x) - 1))
    ELSE x

\* The answer a binary cell gives once case-folded and trimmed, "" if none.
Answer(cell) ==
    IF cell.t = "str" /\ Lower(Strip(cell.s)) \in {"yes", "no"}
    THEN Lower(Strip(cell.s))
    ELSE ""

IndicatorOfRow(i, c) == df.rows[i]["Score_" \o c]

\* C5: normalization case-folds and trims: on a risk-direction field every
\* spelling of yes ("Yes", "yes", "YES ") gives indicator 1 and every
\* spelling of no gives 0; on Someone_to_Talk_To yes gives 0 and no gives 1.
C5_CaseFoldAndTrim ==
    Mapped =>
        \A i \in 1..Len(df.rows) : \A c \in binary_fields :
            /\ Answer(Input.rows[i][c]) = "yes" =>
                  IndicatorOfRow(i, c) = Num(IF c = "Someone_to_Talk_To" THEN 0 ELSE 100)
            /\ Answer(Input.rows[i][c]) = "no" =>
                  IndicatorOfRow(i, c) = Num(IF c = "Someone_to_Talk_To" THEN 100 ELSE 0)

\* The numeric fields the formulas of step 2 read.
scored_numeric_fields == numeric_fields \ {"Year_of_Study"}

NumericFieldsAreNumeric ==
    \A i \in 1..Len(Input.rows) : \A c \in scored_numeric_fields :
        Input.rows[i][c].t # "str"

NoTextScoreColumn ==
    \A c \in Input.cols : StartsWith(c, "Score_") => ~IsObjectCol(Input, c)

\* C6: a binary cell that is neither yes nor no (empty, missing, other text,
\* a number) gives indicator 0 on a risk-direction field and 1 on
\* Someone_to_Talk_To, and never ends the run in an error: with the numeric
\* fields numeric the run ends with every row reported.
C6_UnparseableBinaryIsLenient ==
    /\ Mapped =>
          \A i \in 1..Len(df.rows) : \A c \in binary_fields :
              Answer(Input.rows[i][c]) = "" =>
                  IndicatorOfRow(i, c) = Num(IF c = "Someone_to_Talk_To" THEN 100 ELSE 0)
    /\ (/\ pc = "done"
        /\ uploaded_file.readable
        /\ required_columns \subseteq Input.cols
        /\ NumericFieldsAreNumeric
        /\ NoTextScoreColumn)
       => /\ ~ui.processing_error
          /\ ui.download
          /\ Len(ui.excel_data.rows) = Len(Input.rows)
          /\ {"Risk_Score", "Risk_Level"} \subseteq ui.excel_data.cols

\* A finished report of a table with a binary cell that is empty, missing or
\* some other text.
C6_Witness ==
    /\ Reported
    /\ \E i \in 1..Len(df.rows) : \E c \in binary_fields :
          /\ Answer(Input.rows[i][c]) = ""
          /\ Input.rows[i][c] \in {Str("maybe"), Str(""), NaN}

\* C7: every subscore and every Risk_Score is >= 0, whatever numbers the
\* numeric fields hold.
C7_ScoresNonNegative ==
    Scored =>
        \A i \in 1..Len(df.rows) :
            /\ ScoreOfRow(i) >= 0
            /\ \A c \in Range(weighted_cols) : df.rows[i][c].v >= 0


\* Steps 1-4 on a table, as one function: whether scoring raises and, if
\* not, the scored frame.
Scoring(t) ==
    LET w == Weighted(MapBinary(t))
        object == {col \in score_cols(w.df) : IsObjectCol(w.df, col)}
        summed == Assign(w.df, "Risk_Score", RowSums(w.df, score_cols(w.df) \ object))
    IN  [raised |-> w.raised,
         df |-> IF w.raised THEN w.df ELSE Assign(summed, "Risk_Level", RiskLevels(summed))]

\* C8: columns that are not required are ignored: whatever their names and
\* contents, every row gets the Risk_Score and Risk_Level that the table of
\* the required columns alone gets, and a run that succeeds on the required
\* columns succeeds with the extra ones.
C8_ExtraColumnsIgnored ==
    (/\ pc = "done"
     /\ uploaded_file.readable
     /\ required_columns \subseteq Input.cols
     /\ ~Scoring(Select(Input, required_columns)).raised)
    => /\ ~ui.processing_error
       /\ \A i \in 1..Len(Input.rows) :
             LET alone == Scoring(Select(Input, required_columns)).df.rows[i]
             IN  /\ ScoreOfRow(i) = alone["Risk_Score"].v
                 /\ LevelOfRow(i) = alone["Risk_Level"].s

\* The place of a step in the script.
Rank(p) ==
    CASE p = "start" -> 0 [] p = "read" -> 1 [] p = "validate" -> 2 [] p = "map" -> 3
      [] p = "weighted" -> 4 [] p = "sum" -> 5 [] p = "classify" -> 6 [] p = "report" -> 7
      [] p = "display" -> 8 [] p = "export" -> 9 [] OTHER -> 10

Outcomes ==
    {o \in {"schema", "processing", "report"} :
        \/ o = "schema" /\ ui.schema_error
        \/ o = "processing" /\ ui.processing_error
        \/ o = "report" /\ ui.success /\ ui.table_shown /\ ui.download}

\* C9: a failure while the scores are computed, summed or classified ends
\* the run in the processing error with its cause, with no report table shown
\* and no download offered; every run on an upload ends in exactly one of
\* schema error, processing error and complete report; no step is run again.
C9_FailureIsTerminal ==
    /\ [](ui.processing_error =>
            /\ pc = "done"
            /\ ui.cause # ""
            /\ ~ui.success /\ ~ui.table_shown /\ ~ui.download)
    /\ []((pc = "done" /\ uploaded_file.present) => Cardinality(Outcomes) = 1)
    /\ []((/\ pc = "done"
           /\ uploaded_file.readable
           /\ required_columns \subseteq Input.cols
           /\ ~NumericFieldsAreNumeric)
          => ui.processing_error /\ ui.cause = "TypeError" /\ df_report = NoFrame)
    /\ [][Rank(pc') > Rank(pc)]_vars

\* A run ended by the processing error after scoring had begun.
C9_Witness ==
    /\ pc = "done"
    /\ ui.processing_error
    /\ ui.cause = "TypeError"
    /\ "Score_Sleep_Hours" \in df.cols
    /\ ~NumericFieldsAreNumeric

Kept == {c \in Input.cols : ~StartsWith(c, "Score_") /\ c \notin {"Risk_Score", "Risk_Level"}}

=============================================================================
